---- MODULE Spec2Model ----
(***************************************************************************)
(* Model of tools/checks/utils/schemas.ts: the YAML schema check of one   *)
(* documentation file (checkYamlSchema) with its helpers                  *)
(* getApiTypeFromFilePath, getValidator and schemaPathMap.                *)
(*                                                                         *)
(* A JavaScript string is a sequence of one-character strings, so that    *)
(* the regular expression and String.prototype.split are computed on the  *)
(* characters as the engine computes them.                                *)
(***************************************************************************)
EXTENDS Integers, Sequences, FiniteSets, TLC

VARIABLES
    repositoryRoot,  \* files.js repositoryRoot, fixed for the process
    nCalls,          \* number of checkYamlSchema invocations so far
    schemaReads,     \* per ApiType: successful readFileSync calls on its schema
    schemaCompiles,  \* per ApiType: successful ajv.compile calls on its schema
    reachedLoad,     \* per ApiType: invocations that reached getValidator for it
    config,          \* argument config of the last invocation
    filePath,        \* argument filePath of the last invocation
    e,               \* the exception caught at line 47 (kind "none" if none)
    apiType,         \* local apiType of the last invocation
    steps,           \* the calls the last invocation made, in order
    console,         \* console lines written by the last invocation
    summary,         \* addToSummaryOfRequirements calls of the last invocation
    comments,        \* createNewPullRequestComment calls of the last invocation
    outcome,         \* the branch in which the last invocation ended
    completion       \* "pending", "returned" or "raised"

vars == <<repositoryRoot, nCalls, schemaReads, schemaCompiles, reachedLoad,
          config, filePath, e, apiType, steps, console, summary, comments,
          outcome, completion>>

(***************************************************************************)
(* Bounds of the model.                                                    *)
(***************************************************************************)
MaxCalls == 3    \* invocations of checkYamlSchema in one process run
MaxLine == 2     \* largest line number the YAML parser reports

(***************************************************************************)
(* String literals.                                                        *)
(***************************************************************************)
Slash == <<"/">>
RefEngineLit == <<"r", "e", "f", "e", "r", "e", "n", "c", "e", "/",
                  "e", "n", "g", "i", "n", "e", "/">>
DotYamlLit == <<".", "y", "a", "m", "l">>
classes == <<"c", "l", "a", "s", "s", "e", "s">>
datatypes == <<"d", "a", "t", "a", "t", "y", "p", "e", "s">>
enums == <<"e", "n", "u", "m", "s">>
globals == <<"g", "l", "o", "b", "a", "l", "s">>
libraries == <<"l", "i", "b", "r", "a", "r", "i", "e", "s">>
SchemaDirLit == <<"t", "o", "o", "l", "s", "/", "s", "c", "h", "e", "m", "a",
                  "s", "/", "e", "n", "g", "i", "n", "e", "/">>
DotJsonLit == <<".", "j", "s", "o", "n">>

\* The value undefined: no string, and falsy.
Undefined == <<"undefined">>

(***************************************************************************)
(* The regular expression /reference\/engine\/([^\/]+)\/[^\/]+\.yaml/ and  *)
(* String.prototype.match on it.                                           *)
(***************************************************************************)
LitAt(s, i, lit) ==
    /\ i >= 1
    /\ i + Len(lit) - 1 <= Len(s)
    /\ \A k \in 1..Len(lit) : s[i + k - 1] = lit[k]

NoSlash(s, a, b) == \A k \in a..b : s[k] # "/"

\* The regex matches s from position i with a first group of g characters.
\* [^\/]+ is followed by a literal "/", so the group is the whole run of
\* non-slash characters; the second [^\/]+ takes any m >= 1 characters that
\* leave ".yaml" next. Nothing is required before i or after ".yaml".
regex(s, i, g) ==
    LET j == i + Len(RefEngineLit) IN
    /\ LitAt(s, i, RefEngineLit)
    /\ g >= 1
    /\ j + g <= Len(s)
    /\ NoSlash(s, j, j + g - 1)
    /\ s[j + g] = "/"
    /\ \E m \in 1..(Len(s) - (j + g)) :
          /\ NoSlash(s, j + g + 1, j + g + m)
          /\ LitAt(s, j + g + m + 1, DotYamlLit)

\* filePath.match(regex): the leftmost position at which the regex matches,
\* as <<position, length of group 1>>, or <<0, 0>> for null.
Match(s) ==
    LET starts == {i \in 1..Len(s) : LitAt(s, i, RefEngineLit)}
        hits == {p \in starts \X (1..Len(s)) : regex(s, p[1], p[2])} IN
    IF hits = {} THEN <<0, 0>>
    ELSE CHOOSE p \in hits : \A q \in hits : p[1] <= q[1]

getApiTypeFromFilePath(path) ==
    LET match == Match(path)
        group1 == SubSeq(path, match[1] + Len(RefEngineLit),
                         match[1] + Len(RefEngineLit) + match[2] - 1) IN
    IF match # <<0, 0>> /\ group1 # <<>> THEN group1 ELSE Undefined

(***************************************************************************)
(* schemaPathMap, an object literal: its own keys are the five ApiTypes,   *)
(* and a property read also finds what it inherits from Object.prototype.  *)
(***************************************************************************)
ApiTypes == {classes, datatypes, enums, globals, libraries}

\* Every name a plain object inherits from Object.prototype.
ObjectPrototypeKeys ==
    { <<"c", "o", "n", "s", "t", "r", "u", "c", "t", "o", "r">>,
      <<"t", "o", "S", "t", "r", "i", "n", "g">>,
      <<"v", "a", "l", "u", "e", "O", "f">>,
      <<"h", "a", "s", "O", "w", "n", "P",
        "r", "o", "p", "e", "r", "t", "y">>,
      <<"i", "s", "P", "r", "o", "t", "o", "t", "y", "p", "e", "O", "f">>,
      <<"p", "r", "o", "p", "e", "r", "t", "y", "I", "s",
        "E", "n", "u", "m", "e", "r", "a", "b", "l", "e">>,
      <<"t", "o", "L", "o", "c", "a", "l",
        "e", "S", "t", "r", "i", "n", "g">>,
      <<"_", "_", "p", "r", "o", "t", "o", "_", "_">>,
      <<"_", "_", "d", "e", "f", "i", "n", "e",
        "G", "e", "t", "t", "e", "r", "_", "_">>,
      <<"_", "_", "d", "e", "f", "i", "n", "e",
        "S", "e", "t", "t", "e", "r", "_", "_">>,
      <<"_", "_", "l", "o", "o", "k", "u", "p",
        "G", "e", "t", "t", "e", "r", "_", "_">>,
      <<"_", "_", "l", "o", "o", "k", "u", "p",
        "S", "e", "t", "t", "e", "r", "_", "_">> }

\* The value of schemaPathMap[key]: a string for an own key, an inherited
\* function or object (truthy, not a string), or undefined.
schemaPathMap(root, key) ==
    IF key \in ApiTypes
    THEN [type |-> "string", value |-> root \o Slash \o SchemaDirLit \o key \o DotJsonLit]
    ELSE IF key \in ObjectPrototypeKeys
    THEN [type |-> "inherited", value |-> key]
    ELSE [type |-> "undefined", value |-> Undefined]

Truthy(v) == v.type = "inherited" \/ (v.type = "string" /\ v.value # <<>>)

(***************************************************************************)
(* String.prototype.split with a non-empty separator, and the schema       *)
(* reference schemaPath.split(repositoryRoot + '/')[1] of lines 89 and 97. *)
(***************************************************************************)
IndexOf(s, sep, from) ==
    LET at == {i \in from..Len(s) : LitAt(s, i, sep)} IN
    IF at = {} THEN 0 ELSE CHOOSE i \in at : \A k \in at : i <= k

RECURSIVE SplitFrom(_, _, _)
SplitFrom(s, sep, from) ==
    LET i == IndexOf(s, sep, from) IN
    IF i = 0 THEN <<SubSeq(s, from, Len(s))>>
    ELSE <<SubSeq(s, from, i - 1)>> \o SplitFrom(s, sep, i + Len(sep))

split(s, sep) == SplitFrom(s, sep, 1)

\* JavaScript index [1] is the second piece; a missing piece is undefined.
schemaReference(schemaPath, root) ==
    LET pieces == split(schemaPath, root \o Slash) IN
    IF Len(pieces) >= 2 THEN pieces[2] ELSE Undefined

(***************************************************************************)
(* Imported values and the inputs of an invocation.                        *)
(***************************************************************************)
NoEntry == "Emoji.NoEntry"
requiredCheckMessage == "requiredCheckMessage"

ContentLit == <<"c", "o", "n", "t", "e", "n", "t", "/">>
PartLit == <<"P", "a", "r", "t">>
WidgetsLit == <<"w", "i", "d", "g", "e", "t", "s">>
ConstructorLit == <<"c", "o", "n", "s", "t", "r", "u", "c", "t", "o", "r">>
ToStringLit == <<"t", "o", "S", "t", "r", "i", "n", "g">>
IntroLit == <<"i", "n", "t", "r", "o">>

\* Where the repository may be checked out.
Roots ==
    { <<"/", "r", "e", "p", "o">>,
      <<"/", "s", "c", "h", "e", "m", "a", "s">>,
      <<"/", "e", "n", "g", "i", "n", "e">> }

\* IConfig values.
Configs ==
    [postPullRequestComments : BOOLEAN,
     commitHash : {"a1b2c3", "d4e5f6"},
     pullRequestNumber : {7},
     repository : {"Roblox/creator-docs"}]

NoConfig ==
    [postPullRequestComments |-> FALSE, commitHash |-> "",
     pullRequestNumber |-> 0, repository |-> ""]

\* The files checkYamlSchema is invoked on.
FilePaths ==
    { ContentLit \o RefEngineLit \o classes \o Slash \o PartLit \o DotYamlLit,
      RefEngineLit \o enums \o Slash \o PartLit \o DotYamlLit,
      RefEngineLit \o ConstructorLit \o Slash \o PartLit \o DotYamlLit,
      RefEngineLit \o WidgetsLit \o Slash \o PartLit \o DotYamlLit,
      ContentLit \o IntroLit \o DotYamlLit }

\* What parse(yamlData) does: it returns the data (kind "none"), throws a
\* YAMLParseError with or without a position, or throws another error.
NoException == [kind |-> "none", message |-> "", linePos |-> <<>>]

ParseResults ==
    {NoException}
    \cup {[kind |-> "YAMLParseError", message |-> "Missing closing quote",
           linePos |-> <<>>]}
    \cup {[kind |-> "YAMLParseError", message |-> "Missing closing quote",
           linePos |-> <<[line |-> n, col |-> 1], [line |-> n, col |-> 2]>>] :
              n \in 1..MaxLine}
    \cup {[kind |-> "ReferenceError", message |-> "Unresolved alias",
           linePos |-> <<>>]}

\* The schema file on disk: a JSON Schema, absent or unreadable, not JSON,
\* or JSON that ajv refuses to compile.
SchemaFileStates == {"schema", "missing", "notJson", "notSchema"}

\* What validator(data) returns, with validator.errors.
Verdicts ==
    { [valid |-> TRUE, errors |-> <<>>],
      [valid |-> FALSE, errors |-> <<"minItems">>] }

(***************************************************************************)
(* getValidator: reads the schema file, parses it as JSON and compiles it  *)
(* with the module's ajv instance. ajv keeps the schemas it compiled by    *)
(* object identity; compiledBefore is the number of schema objects it      *)
(* holds for this file, each of them another object than the one           *)
(* JSON.parse has just returned.                                           *)
(***************************************************************************)
\* A getValidator that keeps the validator it compiled for a file.
getValidatorCached(schemaPath, file, compiledBefore) ==
    IF compiledBefore > 0
    THEN [threw |-> FALSE, steps |-> <<"getValidator">>]
    ELSE IF schemaPath.type # "string" \/ file = "missing"
    THEN [threw |-> TRUE, steps |-> <<"getValidator", "readFileSync:schema">>]
    ELSE [threw |-> file # "schema",
          steps |-> IF file = "notJson"
                    THEN <<"getValidator", "readFileSync:schema", "JSON.parse">>
                    ELSE <<"getValidator", "readFileSync:schema", "JSON.parse",
                           "ajv.compile">>]

getValidator(schemaPath, file, compiledBefore) ==
    IF schemaPath.type # "string" \/ file = "missing"
    THEN [threw |-> TRUE, steps |-> <<"getValidator", "readFileSync:schema">>]
    ELSE IF file = "notJson"
    THEN [threw |-> TRUE,
          steps |-> <<"getValidator", "readFileSync:schema", "JSON.parse">>]
    ELSE IF file = "notSchema"
    THEN [threw |-> TRUE,
          steps |-> <<"getValidator", "readFileSync:schema", "JSON.parse",
                      "ajv.compile">>]
    ELSE [threw |-> FALSE,
          steps |-> <<"getValidator", "readFileSync:schema", "JSON.parse",
                      "ajv.compile">>]

(***************************************************************************)
(* The branches of checkYamlSchema. Each gives what the invocation leaves: *)
(* the caught exception, apiType, the calls made in order, the console     *)
(* lines, the summary entries, the review comments and how it ended.       *)
(***************************************************************************)
Count(seq, x) == Cardinality({i \in 1..Len(seq) : seq[i] = x})

\* Line 44 throws: nothing else runs.
ReadFailed ==
    [e |-> NoException, apiType |-> Undefined,
     steps |-> <<"readFileSync:file">>,
     console |-> <<>>, summary |-> <<>>, comments |-> <<>>,
     outcome |-> "ReadFailed", completion |-> "raised"]

\* Line 48.
ParseMessage(path, err) ==
    [template |-> "Requirement: In , error parsing YAML: ", emoji |-> NoEntry,
     filePath |-> path, detail |-> err.message]

\* A comment on a parse failure that is always anchored at line 1.
ParseCommentsAtLineOne(cfg, path, err) ==
    IF err.kind = "YAMLParseError" /\ cfg.postPullRequestComments
    THEN << [body |-> [template |-> "Error parsing YAML: ",
                       detail |-> err.message,
                       notice |-> requiredCheckMessage],
             commit_id |-> cfg.commitHash,
             line |-> 1,
             path |-> path,
             pull_number |-> cfg.pullRequestNumber,
             repository |-> cfg.repository] >>
    ELSE <<>>

\* A comment on a parse failure without the instanceof YAMLParseError test.
ParseCommentsAnyError(cfg, path, err) ==
    IF cfg.postPullRequestComments
    THEN << [body |-> [template |-> "Error parsing YAML: ",
                       detail |-> err.message,
                       notice |-> requiredCheckMessage],
             commit_id |-> cfg.commitHash,
             line |-> IF err.linePos # <<>> THEN err.linePos[1].line ELSE 1,
             path |-> path,
             pull_number |-> cfg.pullRequestNumber,
             repository |-> cfg.repository] >>
    ELSE <<>>

\* Lines 51-65.
ParseComments(cfg, path, err) ==
    IF err.kind = "YAMLParseError" /\ cfg.postPullRequestComments
    THEN << [body |-> [template |-> "Error parsing YAML: ",
                       detail |-> err.message,
                       notice |-> requiredCheckMessage],
             commit_id |-> cfg.commitHash,
             line |-> IF err.linePos # <<>> THEN err.linePos[1].line ELSE 1,
             path |-> path,
             pull_number |-> cfg.pullRequestNumber,
             repository |-> cfg.repository] >>
    ELSE <<>>

\* A catch block without its return: the invocation goes on to the lookup.
ParseFailedFallsThrough(cfg, path, err) ==
    LET message == [template |-> "Requirement: In , error parsing YAML: ",
                    emoji |-> NoEntry, filePath |-> path,
                    detail |-> err.message] IN
    [e |-> err, apiType |-> Undefined,
     steps |-> <<"readFileSync:file", "parse", "console.error",
                 "addToSummaryOfRequirements", "getApiTypeFromFilePath">>,
     console |-> <<message>>, summary |-> <<message>>, comments |-> <<>>,
     outcome |-> "ParseFailed", completion |-> "returned"]

\* Lines 47-67.
ParseFailed(cfg, path, err) ==
    LET message == ParseMessage(path, err)
        posted == ParseComments(cfg, path, err) IN
    [e |-> err, apiType |-> Undefined,
     steps |-> <<"readFileSync:file", "parse", "console.error",
                 "addToSummaryOfRequirements">>
               \o [i \in 1..Len(posted) |-> "createNewPullRequestComment"],
     console |-> <<message>>, summary |-> <<message>>, comments |-> posted,
     outcome |-> "ParseFailed", completion |-> "returned"]

\* Lines 70-74.
NoType(path, type) ==
    [e |-> NoException, apiType |-> type,
     steps |-> <<"readFileSync:file", "parse", "getApiTypeFromFilePath",
                 "console.log">>,
     console |-> << [template |-> "No API type found for ", filePath |-> path] >>,
     summary |-> <<>>, comments |-> <<>>,
     outcome |-> "NoType", completion |-> "returned"]

\* Lines 75-81.
NoSchema(path, type) ==
    [e |-> NoException, apiType |-> type,
     steps |-> <<"readFileSync:file", "parse", "getApiTypeFromFilePath",
                 "schemaPathMap", "console.log">>,
     console |-> << [template |-> "No validator found for file  and API type ",
                     filePath |-> path, apiType |-> type] >>,
     summary |-> <<>>, comments |-> <<>>,
     outcome |-> "NoSchema", completion |-> "returned"]

\* Line 83 throws inside getValidator.
LoadFailed(type, loaded) ==
    [e |-> NoException, apiType |-> type,
     steps |-> <<"readFileSync:file", "parse", "getApiTypeFromFilePath",
                 "schemaPathMap">> \o loaded.steps,
     console |-> <<>>, summary |-> <<>>, comments |-> <<>>,
     outcome |-> "SchemaLoadFailed", completion |-> "raised"]

\* The values the invocations need of the two string computations, computed
\* once: the ApiType of each file path, and the schema reference of each
\* ApiType's schema under each repository root.
ApiTypeOfPath == [p \in FilePaths |-> getApiTypeFromFilePath(p)]

SchemaReferenceOf ==
    [root \in Roots |->
        [t \in ApiTypes |-> schemaReference(schemaPathMap(root, t).value, root)]]

\* Lines 86-91; type is the key of schemaPath in schemaPathMap.
ValidationMessage(path, type, root, errors) ==
    [template |-> "Requirement: In , error validating YAML against schema :",
     emoji |-> NoEntry, filePath |-> path,
     schema |-> SchemaReferenceOf[root][type],
     validationErrors |-> errors]

\* A comment on a validation failure that does not test the flag.
ValidationCommentsUnguarded(cfg, path, type, root, errors) ==
    << [body |-> [template |-> "Error validating YAML against schema :",
                  schema |-> SchemaReferenceOf[root][type],
                  validationErrors |-> errors,
                  notice |-> requiredCheckMessage],
        commit_id |-> cfg.commitHash,
        line |-> 1,
        path |-> path,
        pull_number |-> cfg.pullRequestNumber,
        repository |-> cfg.repository,
        subject_type |-> "file"] >>

\* Lines 95-114.
ValidationComments(cfg, path, type, root, errors) ==
    IF cfg.postPullRequestComments
    THEN << [body |-> [template |-> "Error validating YAML against schema :",
                       schema |-> SchemaReferenceOf[root][type],
                       validationErrors |-> errors,
                       notice |-> requiredCheckMessage],
             commit_id |-> cfg.commitHash,
             line |-> 1,
             path |-> path,
             pull_number |-> cfg.pullRequestNumber,
             repository |-> cfg.repository,
             subject_type |-> "file"] >>
    ELSE <<>>

\* A validation whose failure is logged but not added to the summary.
ValidatedWithoutSummary(cfg, path, type, root, loaded, verdict) ==
    LET before == <<"readFileSync:file", "parse", "getApiTypeFromFilePath",
                    "schemaPathMap">> \o loaded.steps \o <<"validator">> IN
    IF ~verdict.valid
    THEN [e |-> NoException, apiType |-> type,
          steps |-> before \o <<"console.log">>,
          console |-> << [template |-> "Requirement: In , error validating YAML against schema :",
                          emoji |-> NoEntry, filePath |-> path,
                          schema |-> SchemaReferenceOf[root][type],
                          validationErrors |-> verdict.errors] >>,
          summary |-> <<>>, comments |-> <<>>,
          outcome |-> "Invalid", completion |-> "returned"]
    ELSE [e |-> NoException, apiType |-> type,
          steps |-> before,
          console |-> <<>>, summary |-> <<>>, comments |-> <<>>,
          outcome |-> "Valid", completion |-> "returned"]

\* Lines 83-116.
Validated(cfg, path, type, root, loaded, verdict) ==
    LET message == ValidationMessage(path, type, root, verdict.errors)
        posted == ValidationComments(cfg, path, type, root, verdict.errors)
        before == <<"readFileSync:file", "parse", "getApiTypeFromFilePath",
                    "schemaPathMap">> \o loaded.steps \o <<"validator">> IN
    IF ~verdict.valid
    THEN [e |-> NoException, apiType |-> type,
          steps |-> before \o <<"console.log", "addToSummaryOfRequirements">>
                    \o [i \in 1..Len(posted) |-> "createNewPullRequestComment"],
          console |-> <<message>>, summary |-> <<message>>, comments |-> posted,
          outcome |-> "Invalid", completion |-> "returned"]
    ELSE [e |-> NoException, apiType |-> type,
          steps |-> before,
          console |-> <<>>, summary |-> <<>>, comments |-> <<>>,
          outcome |-> "Valid", completion |-> "returned"]

(***************************************************************************)
(* The state machine.                                                      *)
(***************************************************************************)
Init ==
    /\ repositoryRoot \in Roots
    /\ nCalls = 0
    /\ schemaReads = [t \in ApiTypes |-> 0]
    /\ schemaCompiles = [t \in ApiTypes |-> 0]
    /\ reachedLoad = [t \in ApiTypes |-> 0]
    /\ config = NoConfig
    /\ filePath = <<>>
    /\ e = NoException
    /\ apiType = Undefined
    /\ steps = <<>>
    /\ console = <<>>
    /\ summary = <<>>
    /\ comments = <<>>
    /\ outcome = "idle"
    /\ completion = "pending"

\* The invocation ends as branch r says; the process-wide counts follow the
\* calls it made on the schema of its ApiType.
Finish(cfg, path, r) ==
    LET bump(f, n) == IF r.apiType \in ApiTypes
                      THEN [f EXCEPT ![r.apiType] = @ + n] ELSE f IN
    /\ nCalls' = nCalls + 1
    /\ config' = cfg
    /\ filePath' = path
    /\ e' = r.e
    /\ apiType' = r.apiType
    /\ steps' = r.steps
    /\ console' = r.console
    /\ summary' = r.summary
    /\ comments' = r.comments
    /\ outcome' = r.outcome
    /\ completion' = r.completion
    /\ schemaReads' = bump(schemaReads, Count(r.steps, "readFileSync:schema"))
    /\ schemaCompiles' = bump(schemaCompiles, Count(r.steps, "ajv.compile"))
    /\ reachedLoad' = bump(reachedLoad, Count(r.steps, "getValidator"))
    /\ UNCHANGED repositoryRoot

\* One invocation of checkYamlSchema({config, content, filePath}).
checkYamlSchema ==
    /\ nCalls < MaxCalls
    /\ \E cfg \in Configs, path \in FilePaths, readable \in BOOLEAN :
         IF ~readable THEN Finish(cfg, path, ReadFailed)
         ELSE \E parsed \in ParseResults :
           IF parsed.kind # "none"
           THEN Finish(cfg, path, ParseFailed(cfg, path, parsed))
           ELSE LET type == ApiTypeOfPath[path] IN
             IF type = Undefined THEN Finish(cfg, path, NoType(path, type))
             ELSE LET schemaPath == schemaPathMap(repositoryRoot, type) IN
               IF ~Truthy(schemaPath)
               THEN Finish(cfg, path, NoSchema(path, type))
               ELSE \E file \in SchemaFileStates :
                 LET loaded == getValidator(schemaPath, file,
                                   IF type \in ApiTypes
                                   THEN schemaCompiles[type] ELSE 0) IN
                 IF loaded.threw
                 THEN Finish(cfg, path, LoadFailed(type, loaded))
                 ELSE \E verdict \in Verdicts :
                   Finish(cfg, path,
                          Validated(cfg, path, type, repositoryRoot,
                                    loaded, verdict))

Next == checkYamlSchema

Spec == Init /\ [][Next]_vars

(***************************************************************************)
(* getApiTypeFromFilePath on its own: the path is drawn first and the      *)
(* function is then applied to it.                                         *)
(***************************************************************************)
PathPrefixes == {<<>>, ContentLit, <<"m", "y">>}
PathSegments == ApiTypes \cup {ConstructorLit, ToStringLit, WidgetsLit}
PathMiddles == {Slash, <<"/", "s", "u", "b", "/">>}
PathEndings ==
    {DotYamlLit, DotYamlLit \o <<".", "b", "a", "k">>, <<".", "y", "m", "l">>}

PathInputs ==
    {pre \o RefEngineLit \o seg \o mid \o PartLit \o ext :
        pre \in PathPrefixes, seg \in PathSegments,
        mid \in PathMiddles, ext \in PathEndings}
    \cup FilePaths
    \cup { RefEngineLit \o classes \o DotYamlLit,
           RefEngineLit \o classes \o Slash \o DotYamlLit,
           RefEngineLit \o Slash \o PartLit \o DotYamlLit,
           RefEngineLit \o WidgetsLit \o Slash \o PartLit \o DotYamlLit \o Slash
             \o RefEngineLit \o classes \o Slash \o PartLit \o DotYamlLit }

InitPath ==
    /\ repositoryRoot \in Roots
    /\ nCalls = 0
    /\ schemaReads = [t \in ApiTypes |-> 0]
    /\ schemaCompiles = [t \in ApiTypes |-> 0]
    /\ reachedLoad = [t \in ApiTypes |-> 0]
    /\ config = NoConfig
    /\ filePath \in PathInputs
    /\ e = NoException
    /\ apiType = Undefined
    /\ steps = <<>>
    /\ console = <<>>
    /\ summary = <<>>
    /\ comments = <<>>
    /\ outcome = "idle"
    /\ completion = "pending"

ExtractApiType ==
    /\ outcome = "idle"
    /\ apiType' = getApiTypeFromFilePath(filePath)
    /\ steps' = <<"getApiTypeFromFilePath">>
    /\ outcome' = "extracted"
    /\ UNCHANGED <<repositoryRoot, nCalls, schemaReads, schemaCompiles,
                   reachedLoad, config, filePath, e, console, summary,
                   comments, completion>>

NextPath == ExtractApiType

SpecPath == InitPath /\ [][NextPath]_vars

(***************************************************************************)
(* Properties.                                                             *)
(***************************************************************************)
Ran == completion # "pending"
Calls(step) == Count(steps, step)
Parsed == Ran /\ Calls("parse") = 1 /\ e.kind = "none"

\* The comment is addressed to the file and the pull request of the call.
Addressed(c) ==
    /\ c.path = filePath
    /\ c.commit_id = config.commitHash
    /\ c.pull_number = config.pullRequestNumber
    /\ c.repository = config.repository

\* C1: with postPullRequestComments false an invocation makes no
\* createNewPullRequestComment call, whatever its outcome.
C1_NoCommentWhenDisabled ==
    (Ran /\ ~config.postPullRequestComments) =>
        (comments = <<>> /\ Calls("createNewPullRequestComment") = 0)

C1_Witness ==
    /\ ~config.postPullRequestComments
    /\ outcome = "Invalid"
    /\ summary # <<>>
    /\ nCalls >= 2

\* C2: with postPullRequestComments true, a YAMLParseError gives exactly one
\* comment at the reported line (line 1 without a position) and without
\* subject_type, and a validation failure gives exactly one comment at line 1
\* with subject_type 'file'; both carry filePath and the config's commit,
\* pull request and repository.
C2_OneCommentWhenEnabled ==
    /\ (Ran /\ config.postPullRequestComments /\ e.kind = "YAMLParseError") =>
          /\ Len(comments) = 1
          /\ Calls("createNewPullRequestComment") = 1
          /\ comments[1].line =
                (IF e.linePos = <<>> THEN 1 ELSE e.linePos[1].line)
          /\ "subject_type" \notin DOMAIN comments[1]
          /\ Addressed(comments[1])
    /\ (Ran /\ config.postPullRequestComments /\ Calls("validator") = 1
            /\ summary # <<>>) =>
          /\ Len(comments) = 1
          /\ Calls("createNewPullRequestComment") = 1
          /\ comments[1].line = 1
          /\ "subject_type" \in DOMAIN comments[1]
          /\ comments[1].subject_type = "file"
          /\ Addressed(comments[1])

C2_Witness ==
    /\ config.postPullRequestComments
    /\ e.kind = "YAMLParseError"
    /\ e.linePos # <<>>
    /\ e.linePos[1].line = MaxLine
    /\ Len(comments) = 1

\* C3 (as claimed): a path .../reference/engine/<T>/<name>.yaml gives T, and
\* every other path gives undefined.
FollowsConvention(p, i, g) ==
    LET j == i + Len(RefEngineLit) IN
    /\ i = 1 \/ p[i - 1] = "/"
    /\ LitAt(p, i, RefEngineLit)
    /\ g >= 1
    /\ j + g <= Len(p)
    /\ NoSlash(p, j, j + g - 1)
    /\ p[j + g] = "/"
    /\ Len(p) - Len(DotYamlLit) > j + g
    /\ NoSlash(p, j + g + 1, Len(p) - Len(DotYamlLit))
    /\ LitAt(p, Len(p) - Len(DotYamlLit) + 1, DotYamlLit)

C3_ExtractionFollowsConvention ==
    outcome = "extracted" =>
        LET fits == {q \in (1..Len(filePath)) \X (1..Len(filePath)) :
                        FollowsConvention(filePath, q[1], q[2])} IN
        /\ \A q \in fits :
              LET T == SubSeq(filePath, q[1] + Len(RefEngineLit),
                              q[1] + Len(RefEngineLit) + q[2] - 1) IN
              T \in ApiTypes => apiType = T
        /\ fits = {} => apiType = Undefined

\* C4 (as claimed): an extracted ApiType outside the fixed five has no schema:
\* the invocation logs the skip and returns without calling getValidator.
C4_UnknownTypeIsSkipped ==
    (Parsed /\ apiType # Undefined /\ apiType \notin ApiTypes) =>
        /\ outcome = "NoSchema"
        /\ completion = "returned"
        /\ Calls("getValidator") = 0
        /\ Calls("readFileSync:schema") = 0

\* C5 (as claimed): the expected per-document outcomes return normally; a
\* failing read of the file or of its schema raises, and then nothing is
\* reported.
C5_ExpectedOutcomesReturn ==
    /\ (Ran /\ e.kind # "none") => completion = "returned"
    /\ (Parsed /\ ApiTypeOfPath[filePath] \notin ApiTypes) =>
          completion = "returned"
    /\ (Ran /\ Calls("validator") = 1) => completion = "returned"
    /\ outcome \in {"ReadFailed", "SchemaLoadFailed"} => completion = "raised"
    /\ completion = "raised" =>
          console = <<>> /\ summary = <<>> /\ comments = <<>>

\* C6: an invocation goes through the steps in the order read, parse,
\* ApiType lookup, schema lookup, schema load, validation, each at most once;
\* after a parse failure it looks nothing up and validates nothing, whatever
\* the path; it reports a failing file once; and a returning invocation ends
\* in exactly one of the five terminal states.
StepOrder ==
    <<"readFileSync:file", "parse", "getApiTypeFromFilePath", "schemaPathMap",
      "getValidator", "validator">>

Position(step) ==
    IF Calls(step) = 0 THEN 0 ELSE CHOOSE i \in 1..Len(steps) : steps[i] = step

C6_OneTerminalStatePerInvocation ==
    Ran =>
        /\ \A i \in 1..Len(steps) : Calls(steps[i]) = 1
        /\ Position("readFileSync:file") = 1
        /\ \A k \in 2..Len(StepOrder) :
              Calls(StepOrder[k]) = 1 =>
                 /\ Calls(StepOrder[k - 1]) = 1
                 /\ Position(StepOrder[k - 1]) < Position(StepOrder[k])
        /\ e.kind # "none" =>
              /\ outcome = "ParseFailed"
              /\ Calls("getApiTypeFromFilePath") = 0
              /\ Calls("schemaPathMap") = 0
              /\ Calls("getValidator") = 0
              /\ Calls("validator") = 0
              /\ Len(summary) = 1
        /\ Len(console) <= 1 /\ Len(summary) <= 1 /\ Len(comments) <= 1
        /\ completion = "returned" =>
              /\ outcome \in {"ParseFailed", "NoType", "NoSchema", "Valid", "Invalid"}
              /\ outcome = "ParseFailed" <=> e.kind # "none"
              /\ outcome = "NoType" <=> (Parsed /\ Calls("schemaPathMap") = 0)
              /\ outcome = "NoSchema" <=>
                    (Calls("schemaPathMap") = 1 /\ Calls("getValidator") = 0)
              /\ outcome \in {"Valid", "Invalid"} <=> Calls("validator") = 1
              /\ outcome = "Invalid" <=> (Calls("validator") = 1 /\ summary # <<>>)

C6_Witness ==
    /\ outcome = "ParseFailed"
    /\ filePath = ContentLit \o IntroLit \o DotYamlLit
    /\ Len(summary) = 1
    /\ nCalls = MaxCalls

\* C7: a parse failure and a failed validation write one message to the
\* console and append that same message once to the summary; a skipped file
\* and a valid document append nothing and post no comment.
C7_SummaryMirrorsConsole ==
    /\ (Ran /\ (e.kind # "none" \/ outcome = "Invalid")) =>
          /\ Len(console) = 1
          /\ summary = console
          /\ console[1].filePath = filePath
          /\ console[1].emoji = NoEntry
          /\ Calls("addToSummaryOfRequirements") = 1
    /\ (Parsed /\ ApiTypeOfPath[filePath] \notin ApiTypes) =>
          /\ summary = <<>> /\ comments = <<>>
          /\ Calls("addToSummaryOfRequirements") = 0
    /\ outcome = "Valid" =>
          /\ summary = <<>> /\ comments = <<>> /\ console = <<>>
          /\ Calls("addToSummaryOfRequirements") = 0

C7_Witness ==
    /\ outcome = "Invalid"
    /\ Len(summary) = 1
    /\ summary[1].validationErrors # <<>>
    /\ summary = console

\* C8 (as claimed): the schema of an ApiType is read and compiled at most
\* once in a process run.
C8_SchemaLoadedOncePerProcess ==
    \A t \in ApiTypes : schemaReads[t] <= 1 /\ schemaCompiles[t] <= 1

\* C8 (amended): no validator is kept between invocations. Every invocation
\* that gets to getValidator reads the schema file again, and every
\* invocation that validates has parsed and compiled the schema itself.
C8_SchemaLoadedPerInvocation ==
    /\ \A t \in ApiTypes :
          /\ schemaReads[t] = reachedLoad[t]
          /\ schemaCompiles[t] <= schemaReads[t]
    /\ (Ran /\ Calls("getValidator") = 1) => Calls("readFileSync:schema") = 1
    /\ (Ran /\ Calls("validator") = 1) =>
          /\ Calls("JSON.parse") = 1
          /\ Calls("ajv.compile") = 1

C8_Witness ==
    /\ apiType \in ApiTypes
    /\ schemaReads[apiType] >= 2
    /\ schemaCompiles[apiType] >= 2
    /\ outcome \in {"Valid", "Invalid"}

\* C9 (as claimed): the schema reference in the console message and in the
\* comment body is the schema path without its '<root>/' prefix.
StripRoot(schemaPath, root) == SubSeq(schemaPath, Len(root) + 2, Len(schemaPath))

C9_SchemaReferenceIsRelative ==
    outcome = "Invalid" =>
        LET schemaPath == schemaPathMap(repositoryRoot, apiType).value IN
        /\ console[1].schema = StripRoot(schemaPath, repositoryRoot)
        /\ \A i \in 1..Len(comments) :
              comments[i].body.schema = StripRoot(schemaPath, repositoryRoot)

\* C10: an exception of parse that is no YAMLParseError is handled as a parse
\* failure: logged, added to the summary, never commented on, nothing looked
\* up or validated, and the invocation returns.
C10_OtherParseErrorIsHandled ==
    (Ran /\ e.kind \notin {"none", "YAMLParseError"}) =>
        /\ completion = "returned"
        /\ Len(console) = 1
        /\ console[1].detail = e.message
        /\ summary = console
        /\ comments = <<>>
        /\ Calls("createNewPullRequestComment") = 0
        /\ Calls("getApiTypeFromFilePath") = 0
        /\ Calls("validator") = 0

C10_Witness ==
    /\ e.kind = "ReferenceError"
    /\ config.postPullRequestComments
    /\ completion = "returned"
    /\ summary # <<>>

====
